---------------------------- MODULE Spec2Model ----------------------------
(***************************************************************************)
(* A state-machine model of report_generator.py: a straight-line script    *)
(* that seeds the random generator, draws a table of sales records,        *)
(* exports it, aggregates it, renders a bar chart, lays out a PDF story    *)
(* and builds the document.                                                *)
(*                                                                         *)
(* Amounts are integer hundredths (50.00 is 5000).  Floating-point results *)
(* are exact rationals [num, den]; den = 0 is NaN.  The Date column is     *)
(* drawn (it consumes one generator call) but no later statement reads     *)
(* it, so its values are abstracted to one token.                          *)
(***************************************************************************)
EXTENDS Integers, Sequences, FiniteSets, TLC

\* ------------------------------------------------------------------ bounds
\* Records per generated table (the script draws 120).
NumRecords == 2
\* Longest table handed to the aggregator on its own.
MaxLen == 3
\* Amounts range over AmountLow .. AmountLow + AmountSpan (the script's span
\* is 50.00 .. 1000.00).
AmountSpan == 1
\* Runs of the script against the same output folder.
MaxRuns == 2

\* ------------------------------------------------------- program constants
\* np.random.seed(10)
Seed == 10
\* np.random.uniform(50, 1000, ...), in hundredths
AmountLow == 5000
\* output_folder and the three artifacts written beneath it
csv_file == "sales_data.csv"
chart_path == "chart.png"
pdf_path == "report.pdf"
\* categories = ["Electronics", "Clothing", "Books", "Food"]
categories == <<"Electronics", "Clothing", "Books", "Food">>

CategorySet == {categories[i] : i \in 1..Len(categories)}
Amounts == AmountLow .. (AmountLow + AmountSpan)
Records == [Category : CategorySet, Amount : Amounts]
Tables == UNION {[1..n -> Records] : n \in 0..MaxLen}

\* Python's ordering of the category strings (str.__lt__), which the sorted
\* group-by uses.
LexRank(c) ==
    CASE c = "Books" -> 1
      [] c = "Clothing" -> 2
      [] c = "Electronics" -> 3
      [] c = "Food" -> 4

\* ------------------------------------------------------------- float model
NaN == [num |-> 0, den |-> 0]
Float(x) == [num |-> x, den |-> 1]
IsNaN(v) == v.den = 0

VARIABLES
    pc,                 \* the statement group the interpreter is about to run
    run,                \* which run of the script this is (1 .. MaxRuns)
    rng,                \* numpy's global generator: [seed, calls]
    mt10,               \* the generator's outputs for seed 10 revealed so far
    df,                 \* the DataFrame
    summary,            \* the summary dict
    category_totals,    \* the grouped frame
    story,              \* the list of flowables
    dir_exists,         \* whether output_folder exists on disk
    files,              \* the artifacts on disk: name -> [state, run]
    printed,            \* whether this run printed the success message
    failed,             \* the step whose exception ended this run, or "none"
    steps,              \* history: the steps this run has completed, in order
    prevDf              \* history: the table the last earlier run created

vars == <<pc, run, rng, mt10, df, summary, category_totals, story,
          dir_exists, files, printed, failed, steps, prevDf>>

Unset == [unset |-> TRUE]
Absent == [state |-> "absent", run |-> 0]


\* ------------------------------------------------- Step 3: the aggregator
RECURSIVE SumAmounts(_)
\* Series.sum(): the amounts added up front to back; 0.0 for no rows.
SumAmounts(t) ==
    IF t = <<>> THEN 0 ELSE Head(t).Amount + SumAmounts(Tail(t))

RECURSIVE MaxAmount(_)
\* Series.max() of a non-empty column.
MaxAmount(t) ==
    IF Len(t) = 1 THEN t[1].Amount
    ELSE LET m == MaxAmount(Tail(t))
         IN IF t[1].Amount > m THEN t[1].Amount ELSE m

RECURSIVE MinAmount(_)
\* Series.min() of a non-empty column.
MinAmount(t) ==
    IF Len(t) = 1 THEN t[1].Amount
    ELSE LET m == MinAmount(Tail(t))
         IN IF t[1].Amount < m THEN t[1].Amount ELSE m

\* Series.mean(): sum / count, NaN for no rows.
Mean(t) == IF t = <<>> THEN NaN ELSE [num |-> SumAmounts(t), den |-> Len(t)]

\* A bug the summary could have: "Highest Sale" and "Lowest Sale" exchanged.
SummariseMaxMinSwapped(t) ==
    [count |-> Len(t),
     total |-> Float(SumAmounts(t)),
     mean  |-> Mean(t),
     max   |-> IF t = <<>> THEN NaN ELSE Float(MinAmount(t)),
     min   |-> IF t = <<>> THEN NaN ELSE Float(MaxAmount(t))]

\* A bug the summary could have: the first data row taken for a header and
\* left out of the total.
SummariseSkipFirstRow(t) ==
    [count |-> Len(t),
     total |-> Float(IF t = <<>> THEN 0 ELSE SumAmounts(Tail(t))),
     mean  |-> Mean(t),
     max   |-> IF t = <<>> THEN NaN ELSE Float(MaxAmount(t)),
     min   |-> IF t = <<>> THEN NaN ELSE Float(MinAmount(t))]

\* The summary dict.  On an empty frame pandas raises nothing: len is 0,
\* sum is 0.0 and mean, max and min are NaN.
Summarise(t) ==
    [count |-> Len(t),
     total |-> Float(SumAmounts(t)),
     mean  |-> Mean(t),
     max   |-> IF t = <<>> THEN NaN ELSE Float(MaxAmount(t)),
     min   |-> IF t = <<>> THEN NaN ELSE Float(MinAmount(t))]

\* The rows of one group, in table order.
GroupRows(t, c) == SelectSeq(t, LAMBDA r : r.Category = c)

RECURSIVE SortedKeys(_)
\* The group keys in ascending string order (groupby's default sort=True).
SortedKeys(S) ==
    IF S = {} THEN <<>>
    ELSE LET k == CHOOSE x \in S : \A y \in S : LexRank(x) <= LexRank(y)
         IN <<k>> \o SortedKeys(S \ {k})

RECURSIVE FirstSeenKeys(_, _)
\* The group keys in order of first appearance (groupby(sort=False)).
FirstSeenKeys(t, seen) ==
    IF t = <<>> THEN <<>>
    ELSE IF Head(t).Category \in seen THEN FirstSeenKeys(Tail(t), seen)
    ELSE <<Head(t).Category>>
            \o FirstSeenKeys(Tail(t), seen \cup {Head(t).Category})

\* .agg(["count", "sum", "mean"]) of one group, with its key (reset_index).
AggRow(t, c) ==
    LET g == GroupRows(t, c)
    IN [Category |-> c, count |-> Len(g),
        sum |-> Float(SumAmounts(g)), mean |-> Mean(g)]

\* A bug the group-by could have: sort=False, keys in order of appearance.
GroupByFirstSeen(t) ==
    LET keys == FirstSeenKeys(t, {})
    IN [k \in 1..Len(keys) |-> AggRow(t, keys[k])]

\* A bug the group-by could have: "nunique" for "count".
GroupByNunique(t) ==
    LET keys == SortedKeys({t[i].Category : i \in 1..Len(t)})
    IN [k \in 1..Len(keys) |->
          [AggRow(t, keys[k]) EXCEPT
             !.count = Cardinality({t[i].Amount : i \in
                          {j \in 1..Len(t) : t[j].Category = keys[k]}})]]

\* df.groupby("Category")["Amount"].agg(["count","sum","mean"]).reset_index()
GroupBy(t) ==
    LET keys == SortedKeys({t[i].Category : i \in 1..Len(t)})
    IN [k \in 1..Len(keys) |-> AggRow(t, keys[k])]

\* -------------------------------------------- Step 5: formatting and story
\* A float rounded to two decimals, as integer hundredths, ties to even
\* (what both format(v, ",.2f") and DataFrame.round(2) do with the value).
RoundHundredths(v) ==
    LET q == v.num \div v.den
        r == v.num % v.den
    IN IF 2 * r > v.den THEN q + 1
       ELSE IF 2 * r = v.den THEN q + (q % 2)
       ELSE q

RECURSIVE ThousandGroups(_)
\* The digit groups the "," format option separates: 1234567 is <<1, 234, 567>>.
ThousandGroups(n) ==
    IF n < 1000 THEN <<n>>
    ELSE Append(ThousandGroups(n \div 1000), n % 1000)

\* f"{v:,.2f}" if isinstance(v, float) else v, for a float v: the text as
\* its thousands groups and its two decimals; "nan" for NaN.
FormatMoney(v) ==
    IF IsNaN(v) THEN [text |-> "nan"]
    ELSE LET h == RoundHundredths(v)
         IN [whole |-> ThousandGroups(h \div 100), frac |-> h % 100]

\* data_summary: one [key, value] row per item of the summary dict, in the
\* dict's insertion order; the int count is left as it is.
DataSummary(sm) ==
    << <<"Total Transactions", sm.count>>,
       <<"Total Amount", FormatMoney(sm.total)>>,
       <<"Average Amount", FormatMoney(sm.mean)>>,
       <<"Highest Sale", FormatMoney(sm.max)>>,
       <<"Lowest Sale", FormatMoney(sm.min)>> >>

\* cat_table_data: the column names, then category_totals.round(2) row by row.
CatTableData(ct) ==
    << <<"Category", "count", "sum", "mean">> >>
    \o [k \in 1..Len(ct) |->
          <<ct[k].Category, ct[k].count,
            RoundHundredths(ct[k].sum), RoundHundredths(ct[k].mean)>>]

Paragraph(text, style) == [kind |-> "Paragraph", text |-> text, style |-> style]
\* A paragraph whose text is an f-string: the literal part and the value
\* formatted into it.
ParagraphF(text, value, style) ==
    [kind |-> "Paragraph", text |-> text, value |-> value, style |-> style]
Spacer(h) == [kind |-> "Spacer", height |-> h]
FlowTable(data) == [kind |-> "Table", data |-> data]
Image(path) == [kind |-> "Image", path |-> path, width |-> 14, height |-> 8]

\* The title block and the generation timestamp (now: the clock reading).
TitleSection(now) ==
    << Paragraph("CODTECH Internship Task", "Title"), Spacer(12),
       Paragraph("Automated Data Report", "Heading1"), Spacer(12),
       ParagraphF("Generated on: ", now, "Normal"), Spacer(20) >>

SummarySection(sm) ==
    << Paragraph("<b>Summary Statistics</b>", "Heading2"),
       FlowTable(DataSummary(sm)), Spacer(12) >>

CategorySection(ct) ==
    << Paragraph("<b>Category Totals</b>", "Heading2"),
       FlowTable(CatTableData(ct)), Spacer(12) >>

ChartSection ==
    << Paragraph("<b>Visual Summary</b>", "Heading2"), Spacer(8),
       Image(chart_path), Spacer(20) >>

FooterSection ==
    << Paragraph("Generated automatically using Python", "Normal"), Spacer(12),
       Paragraph("Prepared by: <b>Ishita Singh</b>", "Normal"), Spacer(12),
       Paragraph("For: CODTECH Internship Project", "Normal") >>

\* A bug the layout could have: the chart appended before the category table.
BuildStoryChartFirst(now, sm, ct) ==
    TitleSection(now) \o SummarySection(sm) \o ChartSection
        \o CategorySection(ct) \o FooterSection

\* story after the appends of lines 62-106.
BuildStory(now, sm, ct) ==
    TitleSection(now) \o SummarySection(sm) \o CategorySection(ct)
        \o ChartSection \o FooterSection

\* ------------------------------------------------------- the script's flow
\* A bug the script could have: the chart rendered after the document is
\* built instead of before the story refers to it.
SuccessorChartLast(p) ==
    CASE p = "setup" -> "seed"
      [] p = "seed" -> "dataset"
      [] p = "dataset" -> "export"
      [] p = "export" -> "summary"
      [] p = "summary" -> "groupby"
      [] p = "groupby" -> "story"
      [] p = "story" -> "build"
      [] p = "build" -> "chart"
      [] p = "chart" -> "print"
      [] p = "print" -> "done"

\* The statement group that follows p in the file: the script is one
\* straight line, top to bottom.
Successor(p) ==
    CASE p = "setup" -> "seed"
      [] p = "seed" -> "dataset"
      [] p = "dataset" -> "export"
      [] p = "export" -> "summary"
      [] p = "summary" -> "groupby"
      [] p = "groupby" -> "chart"
      [] p = "chart" -> "story"
      [] p = "story" -> "build"
      [] p = "build" -> "print"
      [] p = "print" -> "done"

\* The step at pc completes and control falls through to the next one.
Advance ==
    /\ pc' = Successor(pc)
    /\ steps' = Append(steps, pc)
    /\ UNCHANGED <<run, failed, prevDf>>

\* A bug the script could have: the step wrapped in try/except that logs
\* the error and carries on.
AbortSwallowed(step) ==
    /\ pc' = Successor(step)
    /\ failed' = step
    /\ UNCHANGED <<run, steps, prevDf>>

\* An exception raised in step: nothing catches it, the interpreter prints
\* the traceback and the process ends.
Abort(step) ==
    /\ pc' = "aborted"
    /\ failed' = step
    /\ UNCHANGED <<run, steps, prevDf>>

\* A write of file f that succeeds: the file holds this run's content.
Written(f) == [files EXCEPT ![f] = [state |-> "complete", run |-> run]]

\* A write of file f that raises: before the file was opened for writing
\* (it is left as it was) or after (truncated, part of the content in it).
FailedWrites(f) ==
    {files, [files EXCEPT ![f] = [state |-> "partial", run |-> run]]}

\* ---------- Step 1: Setup ----------
Setup ==
    /\ pc = "setup"
    /\ dir_exists' = TRUE
    /\ Advance
    /\ UNCHANGED <<rng, mt10, df, summary, category_totals, story, files, printed>>

\* os.makedirs raises (exist_ok covers only the folder being there already).
SetupFails ==
    /\ pc = "setup"
    /\ ~dir_exists
    /\ Abort("setup")
    /\ UNCHANGED <<rng, mt10, df, summary, category_totals, story,
                   dir_exists, files, printed>>

\* ---------- Step 2: Create Sample Dataset ----------
\* A bug the script could have: the np.random.seed(10) line missing, the
\* generator left as the interpreter started it.
SeedOmitted ==
    /\ pc = "seed"
    /\ Advance
    /\ UNCHANGED <<rng, mt10, df, summary, category_totals, story,
                   dir_exists, files, printed>>

SeedRng ==
    /\ pc = "seed"
    /\ rng' = [seeded |-> TRUE, seed |-> Seed, calls |-> 0]
    /\ Advance
    /\ UNCHANGED <<mt10, df, summary, category_totals, story,
                   dir_exists, files, printed>>

\* Whether the generator's i-th output after seeding with 10 is already
\* fixed by an earlier draw (the generator is a function of seed and call).
Known(i) == rng.seeded /\ rng.seed = Seed /\ i <= Len(mt10)

\* mt10 with the outputs of calls base+1 .. base+Len(results) recorded.
Reveal(base, results) ==
    IF rng.seeded /\ rng.seed = Seed
    THEN [i \in 1..(IF base + Len(results) > Len(mt10)
                    THEN base + Len(results) ELSE Len(mt10)) |->
            IF i <= Len(mt10) THEN mt10[i] ELSE results[i - base]]
    ELSE mt10

\* What the generator's i-th call can return, S being the call's range: the
\* recorded output when that call of the seeded sequence was made before.
DrawOutcomes(i, S) == IF Known(i) THEN {mt10[i]} ELSE S

\* The three draws of the data dict (dates, categories, amounts) and the
\* DataFrame made of them.
CreateDataset ==
    /\ pc = "dataset"
    /\ \E dts \in DrawOutcomes(rng.calls + 1, {[i \in 1..NumRecords |-> 0]}),
          idx \in DrawOutcomes(rng.calls + 2,
                               [1..NumRecords -> 1..Len(categories)]),
          amts \in DrawOutcomes(rng.calls + 3, [1..NumRecords -> Amounts]) :
         /\ mt10' = Reveal(rng.calls, <<dts, idx, amts>>)
         /\ rng' = [rng EXCEPT !.calls = rng.calls + 3]
         /\ df' = [i \in 1..NumRecords |->
                     [Category |-> categories[idx[i]], Amount |-> amts[i]]]
    /\ Advance
    /\ UNCHANGED <<summary, category_totals, story, dir_exists, files, printed>>

ExportCsv ==
    /\ pc = "export"
    /\ files' = Written(csv_file)
    /\ Advance
    /\ UNCHANGED <<rng, mt10, df, summary, category_totals, story,
                   dir_exists, printed>>

ExportCsvFails ==
    /\ pc = "export"
    /\ files' \in FailedWrites(csv_file)
    /\ Abort("export")
    /\ UNCHANGED <<rng, mt10, df, summary, category_totals, story,
                   dir_exists, printed>>

\* ---------- Step 3: Analyze the Data ----------
ComputeSummary ==
    /\ pc = "summary"
    /\ summary' = Summarise(df)
    /\ Advance
    /\ UNCHANGED <<rng, mt10, df, category_totals, story, dir_exists,
                   files, printed>>

ComputeCategoryTotals ==
    /\ pc = "groupby"
    /\ category_totals' = GroupBy(df)
    /\ Advance
    /\ UNCHANGED <<rng, mt10, df, summary, story, dir_exists, files, printed>>

\* ---------- Step 4: Create Charts ----------
RenderChart ==
    /\ pc = "chart"
    /\ files' = Written(chart_path)
    /\ Advance
    /\ UNCHANGED <<rng, mt10, df, summary, category_totals, story,
                   dir_exists, printed>>

RenderChartFails ==
    /\ pc = "chart"
    /\ files' \in FailedWrites(chart_path)
    /\ Abort("chart")
    /\ UNCHANGED <<rng, mt10, df, summary, category_totals, story,
                   dir_exists, printed>>

\* ---------- Step 5: Generate PDF Report ----------
\* The document template and the story; nothing touches the disk yet (the
\* Image flowable opens its file only when it is laid out).
AssembleStory ==
    /\ pc = "story"
    /\ story' = BuildStory(run, summary, category_totals)
    /\ Advance
    /\ UNCHANGED <<rng, mt10, df, summary, category_totals, dir_exists,
                   files, printed>>

\* doc.build(story): lays the story out, reading the chart image, then
\* writes the document to pdf_path.
BuildDoc ==
    /\ pc = "build"
    /\ files[chart_path].state = "complete"
    /\ files' = Written(pdf_path)
    /\ Advance
    /\ UNCHANGED <<rng, mt10, df, summary, category_totals, story,
                   dir_exists, printed>>

\* doc.build(story) raises: during layout (the chart image cannot be read;
\* the output is not opened yet) or while the output is opened and written.
BuildDocFails ==
    /\ pc = "build"
    /\ files' \in IF files[chart_path].state = "complete"
                  THEN FailedWrites(pdf_path) ELSE {files}
    /\ Abort("build")
    /\ UNCHANGED <<rng, mt10, df, summary, category_totals, story,
                   dir_exists, printed>>

PrintSuccess ==
    /\ pc = "print"
    /\ printed' = TRUE
    /\ Advance
    /\ UNCHANGED <<rng, mt10, df, summary, category_totals, story,
                   dir_exists, files>>

\* The script is started again against the same folder: a fresh interpreter
\* (no variable survives, the generator is seeded from the system's entropy),
\* the files of the earlier runs still on disk.
StartRun ==
    /\ pc \in {"done", "aborted"}
    /\ run < MaxRuns
    /\ run' = run + 1
    /\ pc' = "setup"
    /\ rng' = [seeded |-> FALSE, seed |-> 0, calls |-> 0]
    /\ df' = <<>>
    /\ summary' = Unset
    /\ category_totals' = <<>>
    /\ story' = <<>>
    /\ printed' = FALSE
    /\ failed' = "none"
    /\ steps' = <<>>
    /\ prevDf' = IF \E i \in 1..Len(steps) : steps[i] = "dataset"
                 THEN df ELSE prevDf
    /\ UNCHANGED <<mt10, dir_exists, files>>

Init ==
    /\ pc = "setup"
    /\ run = 1
    /\ rng = [seeded |-> FALSE, seed |-> 0, calls |-> 0]
    /\ mt10 = <<>>
    /\ df = <<>>
    /\ summary = Unset
    /\ category_totals = <<>>
    /\ story = <<>>
    /\ dir_exists \in BOOLEAN
    /\ files = [f \in {csv_file, chart_path, pdf_path} |-> Absent]
    /\ printed = FALSE
    /\ failed = "none"
    /\ steps = <<>>
    /\ prevDf = <<>>

Next ==
    \/ Setup
    \/ SetupFails
    \/ SeedRng
    \/ CreateDataset
    \/ ExportCsv
    \/ ExportCsvFails
    \/ ComputeSummary
    \/ ComputeCategoryTotals
    \/ RenderChart
    \/ RenderChartFails
    \/ AssembleStory
    \/ BuildDoc
    \/ BuildDocFails
    \/ PrintSuccess
    \/ StartRun

Spec == Init /\ [][Next]_vars

\* The aggregator on its own, as a function of the table it is handed: any
\* table of at most MaxLen records, the empty one included.
InitAgg ==
    /\ pc = "summary"
    /\ run = 1
    /\ rng = [seeded |-> FALSE, seed |-> 0, calls |-> 0]
    /\ mt10 = <<>>
    /\ df \in Tables
    /\ summary = Unset
    /\ category_totals = <<>>
    /\ story = <<>>
    /\ dir_exists = TRUE
    /\ files = [f \in {csv_file, chart_path, pdf_path} |-> Absent]
    /\ printed = FALSE
    /\ failed = "none"
    /\ steps = <<>>
    /\ prevDf = <<>>

NextAgg ==
    \/ ComputeSummary
    \/ ComputeCategoryTotals

SpecAgg == InitAgg /\ [][NextAgg]_vars

\* ================================================================= claims
\* Whether this run has completed the given step.
Done(step) == \E i \in 1..Len(steps) : steps[i] = step

RECURSIVE SumOfCounts(_)
SumOfCounts(ct) == IF ct = <<>> THEN 0 ELSE Head(ct).count + SumOfCounts(Tail(ct))

RECURSIVE SumOfTotals(_)
SumOfTotals(ct) == IF ct = <<>> THEN 0 ELSE Head(ct).sum.num + SumOfTotals(Tail(ct))

\* The indices of the records of category c.
RowsOf(t, c) == {i \in 1..Len(t) : t[i].Category = c}

RECURSIVE SumOver(_, _)
\* The sum of the amounts of the records at the indices I.
SumOver(t, I) ==
    IF I = {} THEN 0
    ELSE LET i == CHOOSE x \in I : TRUE
         IN t[i].Amount + SumOver(t, I \ {i})

\* a <= b for two floats that are numbers.
Leq(a, b) == ~IsNaN(a) /\ ~IsNaN(b) /\ a.num * b.den <= b.num * a.den

\* C1: once both aggregates are computed, the summary's transaction count
\* equals the sum of the per-category counts.
C1_CountIsSumOfCategoryCounts ==
    Done("groupby") => summary.count = SumOfCounts(category_totals)

\* C1's case: a table with several categories, one of them holding two
\* records of the same amount, has been aggregated.
C1_Witness ==
    /\ Done("groupby")
    /\ Len(category_totals) >= 2
    /\ \E i, j \in 1..Len(df) :
          i # j /\ df[i].Category = df[j].Category /\ df[i].Amount = df[j].Amount

\* C2: once both aggregates are computed, the summary's total amount equals
\* the sum of the per-category totals, exactly (integer hundredths).
C2_TotalIsSumOfCategoryTotals ==
    Done("groupby") =>
        /\ summary.total.den = 1
        /\ \A k \in 1..Len(category_totals) : category_totals[k].sum.den = 1
        /\ summary.total.num = SumOfTotals(category_totals)

\* C2's case: a table spread over several categories with differing
\* amounts has been aggregated.
C2_Witness ==
    /\ Done("groupby")
    /\ Len(category_totals) >= 2
    /\ \E i, j \in 1..Len(df) : df[i].Amount # df[j].Amount

ExampleTable ==
    << [Category |-> "Books", Amount |-> 10000],
       [Category |-> "Books", Amount |-> 20000],
       [Category |-> "Food", Amount |-> 5000] >>

ExampleCategoryStats ==
    << [Category |-> "Books", count |-> 2, sum |-> Float(30000),
        mean |-> [num |-> 30000, den |-> 2]],
       [Category |-> "Food", count |-> 1, sum |-> Float(5000),
        mean |-> [num |-> 5000, den |-> 1]] >>

\* C4: the grouped frame has exactly one row per category present in the
\* table and none for an absent one; a row's count is the number of records
\* of its category, its sum their total, its mean sum / count; the rows do
\* not depend on the order of the records; the Books/Books/Food table of the
\* scenario gives Books{2, 300.00, 150.00} then Food{1, 50.00, 50.00}.
C4_CategoryStatsPerCategory ==
    Done("groupby") =>
        LET ct == category_totals
        IN /\ {ct[k].Category : k \in 1..Len(ct)}
                 = {df[i].Category : i \in 1..Len(df)}
           /\ \A k, l \in 1..Len(ct) : ct[k].Category = ct[l].Category => k = l
           /\ \A k \in 1..Len(ct) :
                 LET I == RowsOf(df, ct[k].Category)
                 IN /\ ct[k].count = Cardinality(I)
                    /\ ct[k].sum = Float(SumOver(df, I))
                    /\ ct[k].mean.den # 0
                    /\ ct[k].mean.num * ct[k].count
                         = ct[k].sum.num * ct[k].mean.den
           /\ \A p \in Permutations(1..Len(df)) :
                 GroupBy([i \in 1..Len(df) |-> df[p[i]]]) = ct
           /\ GroupBy(ExampleTable) = ExampleCategoryStats

\* C4's case: a three-record table whose first record's category sorts after
\* a later one's, one category holding two records, has been grouped.
C4_Witness ==
    /\ Done("groupby")
    /\ Len(df) = 3
    /\ Len(category_totals) = 2
    /\ LexRank(df[1].Category) > LexRank(df[3].Category)
    /\ \E k \in 1..2 : category_totals[k].count = 2

\* C5: for a table with at least one record, max >= mean >= min.
C5_MaxMeanMinOrdered ==
    (Done("summary") /\ summary.count > 0) =>
        /\ Leq(summary.mean, summary.max)
        /\ Leq(summary.min, summary.mean)

\* C5's case: a table whose amounts are not all equal has been summarised.
C5_Witness ==
    /\ Done("summary")
    /\ summary.count > 1
    /\ summary.max # summary.min

\* What a flowable of the story is, told from the flowable itself.
Landmark(f) ==
    CASE f.kind = "Paragraph" /\ f.style = "Title" -> "title"
      [] f.kind = "Paragraph" /\ f.text = "Generated on: " -> "timestamp"
      [] f.kind = "Table" /\ f.data[1][1] = "Total Transactions" -> "summary"
      [] f.kind = "Table" /\ f.data[1][1] = "Category" -> "category"
      [] f.kind = "Image" -> "chart"
      [] f.kind = "Paragraph" /\ f.text = "Prepared by: <b>Ishita Singh</b>"
            -> "footer"
      [] OTHER -> "other"

\* The landmarks of a story, in story order, headings and spacers left out.
Landmarks(st) ==
    LET marks == [i \in 1..Len(st) |-> Landmark(st[i])]
    IN SelectSeq(marks, LAMBDA m : m # "other")

\* C6: the story handed to doc.build holds, in this order and once each, the
\* title block, the timestamp, the summary table, the category table (its
\* header row, then one row per row of category_totals, in order), the chart
\* image and the footer.
C6_StorySectionsInFixedOrder ==
    Done("story") =>
        /\ Landmarks(story)
             = <<"title", "timestamp", "summary", "category", "chart", "footer">>
        /\ \A i \in 1..Len(story) :
              Landmark(story[i]) = "category" =>
                 /\ Len(story[i].data) = 1 + Len(category_totals)
                 /\ \A k \in 1..Len(category_totals) :
                       story[i].data[k + 1][1] = category_totals[k].Category

\* C6's case: the story of a table with two categories is about to be built.
C6_Witness ==
    /\ pc = "build"
    /\ Len(category_totals) = 2
    /\ Len(story) > 0

\* The categories present in a table.
CategoriesOf(t) == {t[i].Category : i \in 1..Len(t)}

\* C7: the table a run creates has the record count and the category set of
\* the table the run before it created.
C7_RerunSameCountAndCategories ==
    (Done("dataset") /\ prevDf # <<>>) =>
        /\ Len(df) = Len(prevDf)
        /\ CategoriesOf(df) = CategoriesOf(prevDf)

\* C7's case: a second run has created its table after a first one did.
C7_Witness ==
    /\ run = 2
    /\ Done("dataset")
    /\ prevDf # <<>>
    /\ Cardinality(CategoriesOf(df)) = 2

\* The statement groups in file order.
PipelineOrder ==
    <<"setup", "seed", "dataset", "export", "summary", "groupby", "chart",
      "story", "build", "print">>

\* The component a step belongs to, by its place in the data flow:
\* 1 Data Source, 2 Aggregator, 3 Chart Renderer, 4 Report Assembler.
Component(step) ==
    CASE step \in {"setup", "seed", "dataset", "export"} -> 1
      [] step \in {"summary", "groupby"} -> 2
      [] step = "chart" -> 3
      [] step \in {"story", "build", "print"} -> 4

\* The position of a step in the file.
Position(step) == CHOOSE i \in 1..Len(PipelineOrder) : PipelineOrder[i] = step

\* C8: the steps of a run complete in file order, each at most once, so the
\* components run Data Source, Aggregator, Chart Renderer, Report Assembler,
\* none revisited; the chart file of this run is on disk before the story
\* refers to it and the document is built; the success message is printed
\* only after this run's document is written.
C8_ComponentsStrictlySequential ==
    /\ Len(steps) <= Len(PipelineOrder)
    /\ \A i \in 1..Len(steps) : steps[i] = PipelineOrder[i]
    /\ \A i, j \in 1..Len(steps) :
          i < j => Component(steps[i]) <= Component(steps[j])
    /\ pc \notin {"aborted", "done"} => pc = PipelineOrder[Len(steps) + 1]
    /\ (pc \in {"story", "build"} \/ Done("story")) =>
          /\ Done("chart")
          /\ files[chart_path] = [state |-> "complete", run |-> run]
    /\ printed =>
          /\ Done("build")
          /\ files[pdf_path] = [state |-> "complete", run |-> run]

\* C8's case: a second run has gone through every step and printed.
C8_Witness ==
    /\ run = 2
    /\ pc = "done"
    /\ printed

\* C9: once a step has raised, the run is over: no later step has run, the
\* failed step has not completed, and the success message is not printed.
C9_FailureAbortsRun ==
    failed # "none" =>
        /\ pc = "aborted"
        /\ ~printed
        /\ Len(steps) = Position(failed) - 1
        /\ \A i \in 1..Len(steps) : steps[i] = PipelineOrder[i]

\* C9's case: the chart write has raised, with steps still to come.
C9_Witness ==
    /\ failed = "chart"
    /\ pc = "aborted"
    /\ Done("groupby")

\* C10: after a run that ended in an error, the file at pdf_path is not a
\* truncated document of that run.
C10_NoPartialReportLeft ==
    pc = "aborted" =>
        ~(files[pdf_path].state = "partial" /\ files[pdf_path].run = run)

=============================================================================
